---- MODULE Spec2Model ----
(***************************************************************************)
(* Model of instruments.py: Pipe, VibratingPipe, QuenaBody and Quena.      *)
(*                                                                         *)
(* Lengths are Python floats in millimetres; here they are fixed-point     *)
(* integers counted in 1/Scale mm.  Dimensionless quantities (diameter     *)
(* ratios, radicands) are fixed-point integers counted in 1/RS.  Every     *)
(* formula is evaluated in the order the Python expression evaluates it,   *)
(* each operation rounding down.  Frequencies are whole Hertz.             *)
(* Non-finite floats (inf, nan) have no counterpart here.                  *)
(***************************************************************************)
EXTENDS Integers, Sequences, FiniteSets

\* ------------------------------------------------------------------ bounds
MaxHoles == 3
IterCap == 3

\* ------------------------------------------------------- program constants
SOUND_VEL == 345000
\* EPSILON = .00001 = 1 / EPSILON_DEN
EPSILON_DEN == 100000
\* units per millimetre, and the base of the 1/RS ratios
Scale == 10
Base == 1000
RS == Base * Base
ring_offset == (2358 * Scale) \div 100
lips_coverage == 15 * (RS \div 100)
\* sqrt(1 + PI/4) = 1.336306...
SQRT_1_PI_4 == 1336 * Base + 306

\* ------------------------------------------------------ fixed-point floats
Abs(x) == IF x < 0 THEN -x ELSE x

\* floor(a*b/RS), no intermediate product reaching 2^31
Mul(a, b) ==
    LET a1 == a \div Base
        a0 == a % Base
        b1 == b \div Base
        b0 == b % Base
    IN  a1 * b1 + (a1 * b0 + a0 * b1 + (a0 * b0) \div Base) \div Base

\* length / length -> ratio ; length / ratio -> length
RDiv(a, b) == (a * RS) \div b

RECURSIVE SqrtSearch(_, _, _)
SqrtSearch(x, lo, hi) ==
    IF lo >= hi THEN lo
    ELSE LET mid == (lo + hi + 1) \div 2
         IN  IF Mul(mid, mid) <= x THEN SqrtSearch(x, mid, hi)
                                   ELSE SqrtSearch(x, lo, mid - 1)

\* math.sqrt on a ratio x >= 0: the largest y with y*y <= x
Sqrt(x) == SqrtSearch(x, 0, 46340 * Base)

\* ------------------------------------------------------------------- state
VARIABLES
    alive,        \* TRUE when a Quena instance exists
    args,         \* the arguments the instance was constructed from
    diam, thick,  \* Pipe fields
    freq, emb_diam, ring, holes_freqs, holes_diams,   \* Quena fields
    pc,           \* "idle", "for", "while": position inside holes_pos()
    caller,       \* "holes_pos" or "holes_loc": who runs the solver
    n,            \* holes_pos(): loop variable of the for loop
    holes_pos,    \* holes_pos(): the local list
    old_pos,      \* holes_pos(): the local old_pos
    iters,        \* iterations run so far per hole (stops counting at IterCap)
    prevs,        \* old_pos at the moment each hole's loop ended
    ret,          \* outcome of the last finished call
    ref           \* first outcome of holes_pos() for the current arguments

fields == <<diam, thick, freq, emb_diam, ring, holes_freqs, holes_diams>>
locals == <<pc, caller, n, holes_pos, old_pos, iters, prevs>>
vars == <<alive, args, diam, thick, freq, emb_diam, ring, holes_freqs,
          holes_diams, pc, caller, n, holes_pos, old_pos, iters, prevs, ret, ref>>

\* 0-based indexing of Python lists
At(s, i) == s[i + 1]

NoRet == [op |-> "none", kind |-> "none", val |-> <<>>, err |-> "", hole |-> -1]
Value(op, v) == [op |-> op, kind |-> "value", val |-> v, err |-> "", hole |-> -1]
Error(op, e, h) == [op |-> op, kind |-> "error", val |-> <<>>, err |-> e, hole |-> h]

\* -------------------------------------------------------------- the inputs
Pipes == {[diam |-> 18 * Scale, thick |-> (35 * Scale) \div 10]}
Freqs == {380, 0, -380}
HoleFreqs == {410, 450, 520}
HoleDiams == {12 * Scale, 16 * Scale}
EmbSizes == {(95 * Scale) \div 10}

BoundedSeq(S, k) == UNION {[1..m -> S] : m \in 0..k}

\* holes_diams is a number (scalar = TRUE, val = <<d>>) or a list (val)
DiamArgs ==
    {[scalar |-> TRUE, val |-> <<d>>] : d \in HoleDiams}
    \cup {[scalar |-> FALSE, val |-> s] : s \in BoundedSeq(HoleDiams, MaxHoles)}

ArgsDomain ==
    [pipe : Pipes, freq : Freqs, holes_freqs : BoundedSeq(HoleFreqs, MaxHoles),
     emb_size : EmbSizes, holes_diams : DiamArgs, ring : BOOLEAN]

\* ---------------------------------------------------------- Quena.__init__
iterable(d) == ~d.scalar

RECURSIVE InsertInt(_, _)
InsertInt(x, s) ==
    IF s = <<>> THEN <<x>>
    ELSE IF x < Head(s) THEN <<x>> \o s
    ELSE <<Head(s)>> \o InsertInt(x, Tail(s))

RECURSIVE sorted(_)
sorted(s) == IF s = <<>> THEN <<>> ELSE InsertInt(Head(s), sorted(Tail(s)))

\* tuples compare lexicographically
PairLess(x, y) == x[1] < y[1] \/ (x[1] = y[1] /\ x[2] < y[2])

RECURSIVE InsertPair(_, _)
InsertPair(x, s) ==
    IF s = <<>> THEN <<x>>
    ELSE IF PairLess(x, Head(s)) THEN <<x>> \o s
    ELSE <<Head(s)>> \o InsertPair(x, Tail(s))

RECURSIVE sorted_pairs(_)
sorted_pairs(z) ==
    IF z = <<>> THEN <<>> ELSE InsertPair(Head(z), sorted_pairs(Tail(z)))

zip(f, d) == [i \in 1..Len(f) |-> <<f[i], d[i]>>]

\* variant: the diameters are sorted on their own, not along with the frequencies
InitHolesDiams_unpaired(f, d) ==
    IF iterable(d) THEN sorted(d.val) ELSE [i \in 1..Len(f) |-> d.val[1]]

\* holes_diams as stored by __init__ (lines 117-123), lengths agreeing
InitHolesDiams(f, d) ==
    IF iterable(d)
    THEN LET z == sorted_pairs(zip(f, d.val)) IN [i \in 1..Len(z) |-> z[i][2]]
    ELSE [i \in 1..Len(f) |-> d.val[1]]

\* QuenaBody.__init__: emb_diam = emb_size * sqrt(1 + PI/4)
InitEmbDiam(emb_size) == Mul(emb_size, SQRT_1_PI_4)

\* variant: only a diameter list that is too short is refused
LengthMismatch_short(a) ==
    iterable(a.holes_diams) /\ Len(a.holes_diams.val) < Len(a.holes_freqs)

\* len(holes_diams) != len(holes_freqs), tested when holes_diams is iterable
LengthMismatch(a) ==
    iterable(a.holes_diams) /\ Len(a.holes_diams.val) # Len(a.holes_freqs)

\* ------------------------------------------------------------ the methods
holes_nb == Len(holes_freqs)

end_adj == (8 * diam) \div 10

theoric_length == ((SOUND_VEL * Scale) \div freq) \div 2

thick_emb == diam \div 2 + thick + (307 * emb_diam) \div 1000

base_emb_adj == Mul(Mul(RDiv(diam, emb_diam), RDiv(diam, emb_diam)), thick_emb)

emb_adj == Mul(base_emb_adj, RS - lips_coverage)

ring_adj == IF ring THEN ring_offset ELSE 0

closed_adj(i) ==
    LET free_thick == thick \div 10
        r == RDiv(At(holes_diams, i), diam)
    IN  Mul(free_thick, Mul(r, r))

RECURSIVE SumClosed(_, _)
SumClosed(a, b) == IF a >= b THEN 0 ELSE closed_adj(a) + SumClosed(a + 1, b)

\* b is <<>> when the argument is omitted (None), <<k>> otherwise
cum_closed_adj(a, b) ==
    LET bb == IF b = <<>> \/ b[1] = 0 THEN holes_nb ELSE b[1]
    IN  SumClosed(a, bb)

thick_hole(i) == thick + (75 * At(holes_diams, i)) \div 100

theoric_hole_pos(i) == ((SOUND_VEL * Scale) \div At(holes_freqs, i)) \div 2

base_end_pos == theoric_length - end_adj

end_pos == base_end_pos - ring_adj - cum_closed_adj(0, <<>>)

emb_loc == end_pos - emb_adj

\* ------------------------------------------------- holes_pos: one iteration
\* variant: every hole above the first measures its distance from hole 0
Dist_first(P, i) == IF i = 0 THEN end_pos - At(P, 0) ELSE At(P, 0) - At(P, i)

\* dist = self.end_pos() - holes_pos[0]   /   holes_pos[n-1] - holes_pos[n]
Dist(P, i) == IF i = 0 THEN end_pos - At(P, 0) ELSE At(P, i - 1) - At(P, i)

Ratio(i) == IF i = 0 THEN RDiv(At(holes_diams, 0), diam)
                     ELSE RDiv(diam, At(holes_diams, i))

\* ratio**2 + thick_hole(0) / dist
Denominator(P) == Mul(Ratio(0), Ratio(0)) + RDiv(thick_hole(0), Dist(P, 0))

\* 1 + 4*(thick_hole(n) / dist*ratio**2)
Radicand(P, i) ==
    RS + 4 * Mul(RDiv(thick_hole(i), Dist(P, i)), Mul(Ratio(i), Ratio(i)))

\* the exception one pass of the loop body raises, "" when it raises none
IterError(P, i) ==
    IF i = 0
    THEN IF freq = 0 THEN "ZeroDivisionError"
         ELSE IF Dist(P, 0) = 0 THEN "ZeroDivisionError"
         ELSE IF Denominator(P) = 0 THEN "ZeroDivisionError"
         ELSE IF At(holes_freqs, 0) = 0 THEN "ZeroDivisionError"
         ELSE ""
    ELSE IF Dist(P, i) = 0 THEN "ZeroDivisionError"
         ELSE IF Radicand(P, i) < 0 THEN "ValueError"
         ELSE IF At(holes_freqs, i) = 0 THEN "ZeroDivisionError"
         ELSE ""

OpenAdj(P, i) ==
    IF i = 0
    THEN RDiv(thick_hole(0), Denominator(P))
    ELSE Mul(Dist(P, i), Sqrt(Radicand(P, i)) - RS) \div 2

NewPos(P, i) ==
    theoric_hole_pos(i) - OpenAdj(P, i)
    - (IF i < holes_nb - 1 THEN cum_closed_adj(i + 1, <<>>) ELSE 0)

\* variant: a tolerance of one millimetre instead of EPSILON
NotConverged_loose(p, old) == Abs(p - old) > Scale

\* the while condition: abs(holes_pos[n] - old_pos) > EPSILON
NotConverged(p, old) == Abs(p - old) > Scale \div EPSILON_DEN

\* ----------------------------------------------------------------- actions
\* the caller has chosen the arguments; no instance exists yet
Init ==
    /\ alive = FALSE
    /\ args \in ArgsDomain
    /\ diam = 0 /\ thick = 0 /\ freq = 0 /\ emb_diam = 0
    /\ ring = FALSE /\ holes_freqs = <<>> /\ holes_diams = <<>>
    /\ pc = "idle" /\ caller = "holes_pos" /\ n = 0
    /\ holes_pos = <<>> /\ old_pos = 0 /\ iters = <<>> /\ prevs = <<>>
    /\ ret = NoRet
    /\ ref = NoRet

\* q = Quena(pipe, freq, holes_freqs, emb_size, holes_diams, ring), from args;
\* taken again, it builds another instance from equal parameters
Construct ==
    /\ pc = "idle" /\ ret = NoRet
    /\ ring' = args.ring
    /\ holes_freqs' = sorted(args.holes_freqs)
    /\ IF LengthMismatch(args)
       THEN /\ alive' = FALSE
            /\ ret' = Error("__init__", "IndexError", -1)
            /\ UNCHANGED <<holes_diams, diam, thick, freq, emb_diam>>
       ELSE /\ alive' = TRUE
            /\ ret' = Value("__init__", <<>>)
            /\ holes_diams' = InitHolesDiams(args.holes_freqs, args.holes_diams)
            /\ diam' = args.pipe.diam /\ thick' = args.pipe.thick
            /\ freq' = args.freq
            /\ emb_diam' = InitEmbDiam(args.emb_size)
    /\ UNCHANGED <<args, locals, ref>>

\* variant: the list of positions outlives the call (as a mutable default
\* argument or an attribute would) instead of being created by it
HolesPosCall_stale ==
    /\ pc = "idle" /\ alive /\ ret = NoRet
    /\ \E c \in {"holes_pos", "holes_loc"} : caller' = c
    /\ pc' = "for"
    /\ n' = 0
    /\ iters' = <<>>
    /\ prevs' = <<>>
    /\ old_pos' = 0
    /\ UNCHANGED <<alive, args, fields, holes_pos, ret, ref>>

\* q.holes_pos()  or  q.holes_loc
HolesPosCall ==
    /\ pc = "idle" /\ alive /\ ret = NoRet
    /\ \E c \in {"holes_pos", "holes_loc"} : caller' = c
    /\ pc' = "for"
    /\ n' = 0
    /\ holes_pos' = <<>>
    /\ iters' = <<>>
    /\ prevs' = <<>>
    /\ old_pos' = 0
    /\ UNCHANGED <<alive, args, fields, ret, ref>>

\* for n in range(self.holes_nb): holes_pos.append(0); old_pos = 1
ForNext ==
    /\ pc = "for" /\ n < holes_nb
    /\ holes_pos' = Append(holes_pos, 0)
    /\ old_pos' = 1 * Scale
    /\ iters' = Append(iters, 0)
    /\ pc' = "while"
    /\ UNCHANGED <<alive, args, fields, caller, n, prevs, ret, ref>>

Finish(r) ==
    /\ ret' = r
    /\ ref' = IF ref = NoRet THEN r ELSE ref
    /\ pc' = "idle"
    /\ UNCHANGED <<alive, args, fields, caller, n, holes_pos, old_pos, iters, prevs>>

\* one pass of the while body
WhileBody ==
    /\ pc = "while"
    /\ NotConverged(At(holes_pos, n), old_pos)
    /\ IF IterError(holes_pos, n) # ""
       THEN LET e == IterError(holes_pos, n)
            IN  Finish(Error("holes_pos", e, IF e = "ValueError" THEN n ELSE -1))
       ELSE /\ old_pos' = At(holes_pos, n)
            /\ holes_pos' = [holes_pos EXCEPT ![n + 1] = NewPos(holes_pos, n)]
            /\ iters' = [iters EXCEPT ![n + 1] = IF @ < IterCap THEN @ + 1 ELSE @]
            /\ UNCHANGED <<alive, args, fields, pc, caller, n, prevs, ret, ref>>

\* the while condition is false: the for loop goes on
WhileExit ==
    /\ pc = "while"
    /\ ~NotConverged(At(holes_pos, n), old_pos)
    /\ prevs' = Append(prevs, old_pos)
    /\ n' = n + 1
    /\ pc' = "for"
    /\ UNCHANGED <<alive, args, fields, caller, holes_pos, old_pos, iters, ret, ref>>

\* variant: returning reorders the stored diameters in place
Return_reordering ==
    /\ pc = "for" /\ n = holes_nb
    /\ ret' = Value("holes_pos", holes_pos)
    /\ ref' = IF ref = NoRet THEN ret' ELSE ref
    /\ pc' = "idle"
    /\ holes_diams' = [i \in 1..Len(holes_diams) |->
                          holes_diams[Len(holes_diams) + 1 - i]]
    /\ UNCHANGED <<alive, args, diam, thick, freq, emb_diam, ring, holes_freqs,
                   caller, n, holes_pos, old_pos, iters, prevs>>

\* return holes_pos  (holes_loc: [self.end_pos() - pos for pos in ...])
Return ==
    /\ pc = "for" /\ n = holes_nb
    /\ Finish(IF caller = "holes_loc"
              THEN Value("holes_loc",
                         [i \in 1..Len(holes_pos) |-> end_pos - holes_pos[i]])
              ELSE Value("holes_pos", holes_pos))

Pure(r) ==
    /\ pc = "idle" /\ alive /\ ret = NoRet
    /\ ret' = r
    /\ UNCHANGED <<alive, args, fields, locals, ref>>

CallTheoricLength ==
    Pure(IF freq = 0 THEN Error("theoric_length", "ZeroDivisionError", -1)
                     ELSE Value("theoric_length", <<theoric_length>>))

CallEndPos ==
    Pure(IF freq = 0 THEN Error("end_pos", "ZeroDivisionError", -1)
                     ELSE Value("end_pos", <<end_pos>>))

CallEmbLoc ==
    Pure(IF freq = 0 THEN Error("emb_loc", "ZeroDivisionError", -1)
                     ELSE Value("emb_loc", <<emb_loc>>))

CallTheoricHolePos ==
    \E i \in 0..(holes_nb - 1) :
        Pure(IF At(holes_freqs, i) = 0
             THEN Error("theoric_hole_pos", "ZeroDivisionError", i)
             ELSE Value("theoric_hole_pos", <<i, theoric_hole_pos(i)>>))

CallCumClosedAdj ==
    \E a \in 0..holes_nb : \E b \in {<<>>} \cup {<<k>> : k \in 0..holes_nb} :
        Pure(Value("cum_closed_adj", <<a>> \o b \o <<cum_closed_adj(a, b)>>))

CallCorrection ==
    \/ Pure(Value("end_adj", <<end_adj>>))
    \/ Pure(Value("emb_adj", <<emb_adj>>))
    \/ Pure(Value("thick_emb", <<thick_emb>>))
    \/ Pure(Value("ring_adj", <<ring_adj>>))
    \/ \E i \in 0..(holes_nb - 1) : Pure(Value("closed_adj", <<i, closed_adj(i)>>))
    \/ \E i \in 0..(holes_nb - 1) : Pure(Value("thick_hole", <<i, thick_hole(i)>>))

\* the caller has used the value or handled the exception of the last call
TakeResult ==
    /\ pc = "idle" /\ ret # NoRet
    /\ ret' = NoRet
    /\ UNCHANGED <<alive, args, fields, locals, ref>>

Next ==
    \/ Construct
    \/ TakeResult
    \/ HolesPosCall
    \/ ForNext
    \/ WhileBody
    \/ WhileExit
    \/ Return
    \/ CallTheoricLength
    \/ CallEndPos
    \/ CallEmbLoc
    \/ CallTheoricHolePos
    \/ CallCumClosedAdj
    \/ CallCorrection

Spec == Init /\ [][Next]_vars

\* the interpreter goes on executing a call that has started
SolverStep == ForNext \/ WhileBody \/ WhileExit \/ Return

\* the instruments of at most one hole with a scalar hole diameter
OneHoleInit ==
    /\ Init
    /\ Len(args.holes_freqs) <= 1
    /\ args.holes_diams.scalar

FairSpec == OneHoleInit /\ [][Next]_vars /\ WF_vars(SolverStep)

\* ------------------------------------------------------------------ claims
\* the (frequency, diameter) pairs the constructor was given
GivenPairs ==
    [i \in 1..Len(args.holes_freqs) |->
        <<args.holes_freqs[i],
          IF args.holes_diams.scalar THEN args.holes_diams.val[1]
                                     ELSE args.holes_diams.val[i]>>]

StoredPairs == [i \in 1..Len(holes_freqs) |-> <<holes_freqs[i], holes_diams[i]>>]

Count(s, x) == Cardinality({i \in 1..Len(s) : s[i] = x})

SamePairs(s, t) ==
    /\ Len(s) = Len(t)
    /\ \A i \in 1..Len(s) : Count(s, s[i]) = Count(t, s[i])

\* C1: in every constructed Quena, before, during and after any calls,
\* holes_freqs is ascending, holes_diams has the same length, and the stored
\* (frequency, diameter) pairs are a permutation of the pairs given.
C1_SortedAndPaired ==
    alive =>
        /\ \A i, j \in 1..Len(holes_freqs) : i < j => holes_freqs[i] <= holes_freqs[j]
        /\ Len(holes_diams) = Len(holes_freqs)
        /\ SamePairs(GivenPairs, StoredPairs)

\* holes given out of order with distinct diameters, and holes_pos() has returned
C1_Witness ==
    /\ alive /\ pc = "idle"
    /\ ret.op = "holes_pos" /\ ret.kind = "value"
    /\ ~args.holes_diams.scalar
    /\ Len(args.holes_freqs) = 3
    /\ args.holes_freqs[1] > args.holes_freqs[3]
    /\ args.holes_freqs[3] > args.holes_freqs[2]
    /\ args.holes_diams.val[1] < args.holes_diams.val[2]
    /\ args.holes_diams.val[2] > args.holes_diams.val[3]

\* C2: when holes_diams is a list whose length differs from that of
\* holes_freqs, the constructor raises IndexError, no instance exists, and
\* no call on an instance (solver or correction) has run.
C2_MismatchRaises ==
    (~args.holes_diams.scalar /\ Len(args.holes_diams.val) # Len(args.holes_freqs))
    => /\ ~alive
       /\ pc = "idle"
       /\ holes_pos = <<>> /\ iters = <<>>
       /\ ret \in {NoRet, Error("__init__", "IndexError", -1)}
       /\ ref = NoRet

\* a longer diameter list was given and the constructor has raised
C2_Witness ==
    /\ ~args.holes_diams.scalar
    /\ Len(args.holes_diams.val) > Len(args.holes_freqs)
    /\ ret = Error("__init__", "IndexError", -1)
    /\ ~alive

Outcome(r) ==
    [kind |-> r.kind, err |-> r.err, hole |-> r.hole,
     pos  |-> IF r.op = "holes_loc"
              THEN [i \in 1..Len(r.val) |-> end_pos - r.val[i]]
              ELSE r.val]

\* C7: every finished call of the solver, on this instance or on another one
\* built from the same parameters, with any other calls in between, gives the
\* outcome of the first call: the same positions, or the same error for the
\* same hole.
C7_SameOutcome ==
    (pc = "idle" /\ ret.op \in {"holes_pos", "holes_loc"})
    => Outcome(ret) = Outcome(ref)

\* holes_loc has returned after an earlier holes_pos() returned two positions or more
C7_Witness ==
    /\ pc = "idle"
    /\ ref.op = "holes_pos" /\ ref.kind = "value" /\ Len(ref.val) >= 2
    /\ ret.op = "holes_loc" /\ ret.kind = "value"

\* C8: once an instance is constructed, no step of any call, whether the
\* call returns or raises, changes diam, thick, freq, emb_diam, ring,
\* holes_freqs or holes_diams.
C8_FieldsNeverChange == [][alive => fields' = fields]_vars

\* the solver has raised part-way through on an instance with two holes or more
C8_Witness ==
    /\ alive /\ pc = "idle"
    /\ ret.op = "holes_pos" /\ ret.kind = "error" /\ ret.hole >= 1
    /\ Len(holes_diams) >= 2 /\ holes_diams[1] # holes_diams[Len(holes_diams)]

\* the positions with every entry but those of holes i-1 and i blanked
Masked(P, i) ==
    [k \in 1..Len(P) |-> IF k = i + 1 \/ k = i THEN P[k] ELSE 0]

\* what one pass of hole i's loop body gives when the list of positions is P
PassResult(P, i) ==
    IF IterError(P, i) # "" THEN <<"raise", IterError(P, i)>>
                            ELSE <<"store", NewPos(P, i)>>

\* C10: the holes are solved in index order: hole n is started with exactly
\* n positions accepted, a pass for hole n writes pos[n] only and computes it
\* from pos[n-1] and pos[n] alone (pos[0] and end_pos() for hole 0),
\* accepting a position moves on to hole n+1 without changing the list, and a
\* successful call returns one position per hole, position i being the fixed
\* point of the equation of hole i.
C10_InIndexOrder ==
    [][ /\ (pc = "for" /\ pc' = "while")
           => /\ n' = n /\ Len(holes_pos) = n /\ Len(prevs) = n
              /\ holes_pos' = Append(holes_pos, 0)
        /\ (pc = "while" /\ pc' = "while")
           => /\ n' = n /\ prevs' = prevs
              /\ Len(holes_pos') = Len(holes_pos)
              /\ \A k \in 1..Len(holes_pos) :
                    k # n + 1 => holes_pos'[k] = holes_pos[k]
        /\ (pc = "while" /\ Masked(holes_pos, n) # holes_pos)
           => PassResult(holes_pos, n) = PassResult(Masked(holes_pos, n), n)
        /\ (pc = "while" /\ pc' = "for")
           => /\ n' = n + 1 /\ holes_pos' = holes_pos
              /\ prevs' = Append(prevs, old_pos)
        /\ (pc = "for" /\ pc' = "idle")
           => /\ n = holes_nb /\ Len(holes_pos) = holes_nb
              /\ ret'.kind = "value" /\ Len(ret'.val) = holes_nb
              /\ \A i \in 0..(holes_nb - 1) :
                    At(holes_pos, i) = NewPos(holes_pos, i)
      ]_vars

\* the third hole is on its second pass or later, below two accepted positions
C10_Witness ==
    /\ pc = "while" /\ n = 2
    /\ Len(prevs) = 2 /\ iters[3] >= 2
    /\ At(holes_pos, 0) > At(holes_pos, 1) /\ At(holes_pos, 1) > At(holes_pos, 2)

\* C3: every call of the solver that has started comes to an end, by
\* returning the positions or by raising an error.
C3_SolverTerminates == (pc # "idle") ~> (pc = "idle")

\* the dist read by a pass of hole i that started from position p
PassDist(i, p) == IF i = 0 THEN end_pos - p ELSE At(holes_pos, i - 1) - p

\* C4: no pass of the loop body completes on a dist that is zero or
\* negative: neither the last pass of the hole being solved nor the last
\* pass of a hole whose position was accepted (and is then returned); and a
\* call on a non-zero target frequency raises no error but the ValueError
\* naming a hole.
C4_InvalidDistRaises ==
    /\ (pc = "while" /\ iters[n + 1] >= 1) => PassDist(n, old_pos) > 0
    /\ \A i \in 1..Len(prevs) : PassDist(i - 1, prevs[i]) > 0
    /\ (pc = "idle" /\ alive /\ freq # 0
           /\ ret.op = "holes_pos" /\ ret.kind = "error")
         => (ret.err = "ValueError" /\ ret.hole >= 0)

\* C5: theoric_length, end_pos() and emb_loc never return a value on a
\* target frequency that is zero or negative.
C5_InvalidFrequencyRaises ==
    (pc = "idle" /\ alive /\ freq <= 0
       /\ ret.op \in {"theoric_length", "end_pos", "emb_loc"})
    => ret.kind = "error"

\* C9: cum_closed_adj(a, b) returns the sum of closed_adj(i) over
\* a <= i < b, which is 0 when b <= a, b = 0 included, and with b omitted the
\* sum over a <= i < holes_nb.
C9_HalfOpenSum ==
    (pc = "idle" /\ alive /\ ret.op = "cum_closed_adj")
    => IF Len(ret.val) = 2
       THEN ret.val[2] = SumClosed(ret.val[1], holes_nb)
       ELSE ret.val[3] = SumClosed(ret.val[1], ret.val[2])

====
